---- MODULE Spec2Model ----
(***************************************************************************)
(* Referral withdrawal lifecycle of remnawave-tg-shop.                     *)
(*                                                                         *)
(* State: the users' referral balances and the referral_withdraw_requests  *)
(* table (the committed database), the per-user FSM storage of the         *)
(* withdraw dialog, and the handler invocations in flight.  Every handler  *)
(* invocation is a task with its own database session; a task advances one *)
(* await point at a time, so that handlers interleave exactly where the    *)
(* coroutine can be suspended.  The writes of a session (tx) become        *)
(* visible to the other sessions when the handler has returned and the     *)
(* session commits; an exception that leaves the handler discards them.    *)
(* FSM storage is not part of the database: its writes are immediate.      *)
(* Amounts and balances are whole numbers of the currency unit.            *)
(***************************************************************************)
EXTENDS Integers, Sequences, FiniteSets, TLC

VARIABLES balance, requests, nextId, fsm, tasks, initBalance, scope, rendered

vars == <<balance, requests, nextId, fsm, tasks, initBalance, scope, rendered>>

(* ------------------------------ bounds --------------------------------- *)
Users == {1, 2}
Tasks == {1, 2}
\* callback.from_user.id of the admin; the id is only written, never tested
Admins == {8}
MaxBalance == 2
MaxRequests == 2

\* what runs together: handlers of one user and the admins racing in two
\* tasks, or the handlers of two users one after the other
Scopes ==
  { [users |-> {1}, tasks |-> Tasks],
    [users |-> Users, tasks |-> {1}] }

(* ------------------------- program constants --------------------------- *)
\* settings.REFERRAL_WITHDRAW_MIN_RUB, configured inside the range of balances
REFERRAL_WITHDRAW_MIN_RUB == MaxBalance - 1
DEFAULT_MIN == 1000
\* a length check that lets four characters through
MIN_CONTACT_LEN_Short == 5 - 1

MIN_CONTACT_LEN == 5

waiting_for_withdraw_amount == "waiting_for_withdraw_amount"
waiting_for_withdraw_contact == "waiting_for_withdraw_contact"
NoState == "none"

K_BALANCE == "referral_withdraw_balance"
K_MIN == "referral_withdraw_min"
K_AMOUNT == "referral_withdraw_amount"

(* ------------------------------ inputs --------------------------------- *)
\* message texts a user may send as the amount: numbers and one text that
\* float() refuses
\* float("nan"): the value that float() returns for the text "nan"
NaN == 9999

AmountInputs ==
  [valid : {TRUE}, value : (0 .. MaxBalance + 1) \cup {NaN}]
    \cup {[valid |-> FALSE, value |-> 0]}

\* the float comparisons: every comparison with nan is False
FloatLt(a, b) == a # NaN /\ b # NaN /\ a < b
FloatGt(a, b) == a # NaN /\ b # NaN /\ a > b
FloatLe(a, b) == a # NaN /\ b # NaN /\ a <= b

\* message texts a user may send as the contact, as character sequences
RawContacts ==
  { <<"a", "b", "c", "d">>,
    <<" ", "a", "b", "c", "d", " ">>,
    <<"a", "b", "c", "d", "e">>,
    <<" ", "a", "b", "c", "d", "e", " ">> }

RECURSIVE LStrip(_)
LStrip(s) == IF s # <<>> /\ Head(s) = " " THEN LStrip(Tail(s)) ELSE s

RECURSIVE RStrip(_)
RStrip(s) ==
  IF s # <<>> /\ s[Len(s)] = " " THEN RStrip(SubSeq(s, 1, Len(s) - 1)) ELSE s

\* str.strip()
Strip(s) == RStrip(LStrip(s))

(* ------------------------------ FSM ------------------------------------ *)
EmptyData == [k \in {} |-> 0]

\* FSMContext.clear(): state None and data {}
ClearedFsm == [state |-> NoState, data |-> EmptyData]

\* dict.get(key, default)
DataGet(data, k, default) == IF k \in DOMAIN data THEN data[k] ELSE default

\* FSMContext.update_data(**kwargs): merge the new keys over the old ones
UpdateData(data, new) ==
  [k \in (DOMAIN data) \cup (DOMAIN new) |->
     IF k \in DOMAIN new THEN new[k] ELSE data[k]]

(* --------------------------- database ---------------------------------- *)
\* NULL, and the timestamp datetime.now(timezone.utc)
NULL == "null"
NOW == "now"

NoRow == <<>>
EmptyTx == [user |-> 0, delta |-> 0, insert |-> NoRow, update |-> NoRow]

\* the ReferralWithdrawRequest row built by create_withdraw_request
NewRequest(id, user_id, amount, contact, status) ==
  [request_id |-> id, user_id |-> user_id, amount |-> amount,
   contact |-> contact, status |-> status,
   processed_at |-> NULL, processed_by_admin_id |-> 0, admin_comment |-> NULL]

\* INSERT of create_withdraw_request on a table
create_withdraw_request(tbl, row) ==
  [i \in (DOMAIN tbl) \cup {row.request_id} |->
     IF i = row.request_id THEN row ELSE tbl[i]]

\* an UPDATE that also zeroes the amount of the row
update_request_status_ZeroAmount(tbl, id, status, admin_id, comment, now) ==
  [i \in DOMAIN tbl |->
     IF i = id
       THEN [tbl[i] EXCEPT !.status = status, !.amount = 0,
                           !.processed_at = now,
                           !.processed_by_admin_id = admin_id,
                           !.admin_comment = comment]
       ELSE tbl[i]]

\* UPDATE ... WHERE request_id = :id of update_request_status on a table
update_request_status(tbl, id, status, admin_id, comment, now) ==
  [i \in DOMAIN tbl |->
     IF i = id
       THEN [tbl[i] EXCEPT !.status = status,
                           !.processed_at = now,
                           !.processed_by_admin_id = admin_id,
                           !.admin_comment = comment]
       ELSE tbl[i]]

\* the table as a session sees it: the committed rows and its own writes
TableView(tbl, tx) ==
  LET upd == IF tx.update = NoRow THEN tbl
             ELSE update_request_status(tbl, tx.update[1].request_id,
                    tx.update[1].status, tx.update[1].admin_id,
                    tx.update[1].comment, tx.update[1].now)
  IN IF tx.insert = NoRow THEN upd
     ELSE create_withdraw_request(upd, tx.insert[1])

\* get_pending_request_by_user: is there a pending row of the user
get_pending_request_by_user(tbl, user_id) ==
  \E i \in DOMAIN tbl : tbl[i].user_id = user_id /\ tbl[i].status = "pending"

\* count_requests(status=...)
count_requests(tbl, status) ==
  Cardinality({i \in DOMAIN tbl : tbl[i].status = status})

(* ------------------------------ tasks ---------------------------------- *)
NoReq == [user_id |-> 0, amount |-> 0]

IdleTask ==
  [pc |-> "idle", user |-> 0, amount |-> 0, balance |-> 0, contact |-> <<>>,
   action |-> "none", request_id |-> 0, admin |-> 0, page |-> 0,
   req |-> NoReq, credit |-> NoRow, tx |-> EmptyTx]

IsIdle(t) == tasks[t].pc = "idle"

\* an incoming update is handled by a new task: the first free slot
FreeSlot(t) == IsIdle(t) /\ \A s \in Tasks : s < t => ~IsIdle(s)

\* the handler returned without database writes: the task ends
Finish(t) == tasks' = [tasks EXCEPT ![t] = IdleTask]

Goto(t, label) == tasks' = [tasks EXCEPT ![t].pc = label]

UnchangedDb ==
  UNCHANGED <<balance, requests, nextId, initBalance, scope, rendered>>

\* what the admin's chat shows: the alert of the last callback, the callback
\* itself, and the queue page as last rendered
NoView ==
  [screen |-> "none", page |-> 0, total_count |-> 0, total_pages |-> 0,
   requests |-> <<>>]

NoCallback == [kind |-> "none", action |-> "none", request_id |-> 0, page |-> 0]

NoRender == [answer |-> "none", callback |-> NoCallback, view |-> NoView]

\* the model stops opening dialogs once MaxRequests rows were inserted
TableHasRoom == nextId <= MaxRequests

Init ==
  /\ scope \in Scopes
  /\ balance \in [Users -> 0 .. MaxBalance]
  /\ \A u \in Users \ scope.users : balance[u] = 0
  /\ initBalance = balance
  /\ requests = [i \in {} |-> 0]
  /\ nextId = 1
  /\ fsm = [u \in Users |-> ClearedFsm]
  /\ tasks = [t \in Tasks |-> IdleTask]
  /\ rendered = NoRender

(* --------------- referral_action_handler, action "withdraw" ------------ *)
\* the callback arrives; state.clear()
StartWithdraw(t, u) ==
  /\ FreeSlot(t)
  /\ TableHasRoom
  /\ fsm' = [fsm EXCEPT ![u] = ClearedFsm]
  /\ tasks' = [tasks EXCEPT ![t] = [IdleTask EXCEPT !.pc = "w_pending", !.user = u]]
  /\ UnchangedDb

\* get_pending_request_by_user; "pending exists" ends the handler
WithdrawCheckPending(t) ==
  /\ tasks[t].pc = "w_pending"
  /\ IF get_pending_request_by_user(requests, tasks[t].user)
       THEN Finish(t)
       ELSE Goto(t, "w_balance")
  /\ UNCHANGED fsm
  /\ UnchangedDb

\* a balance check that lets every balance through
WithdrawCheckBalance_NoCheck(t) ==
  /\ tasks[t].pc = "w_balance"
  /\ tasks' = [tasks EXCEPT ![t].pc = "w_update_data",
                            ![t].balance = balance[tasks[t].user]]
  /\ UNCHANGED fsm
  /\ UnchangedDb

\* user_dal.get_referral_balance and the check against the configured minimum
WithdrawCheckBalance(t) ==
  /\ tasks[t].pc = "w_balance"
  /\ LET b == balance[tasks[t].user]
     IN IF b < REFERRAL_WITHDRAW_MIN_RUB
          THEN Finish(t)
          ELSE tasks' = [tasks EXCEPT ![t].pc = "w_update_data", ![t].balance = b]
  /\ UNCHANGED fsm
  /\ UnchangedDb

\* state.update_data(referral_withdraw_balance=..., referral_withdraw_min=...)
WithdrawUpdateData(t) ==
  /\ tasks[t].pc = "w_update_data"
  /\ LET u == tasks[t].user
         new == [k \in {K_BALANCE, K_MIN} |->
                   IF k = K_BALANCE THEN tasks[t].balance
                   ELSE REFERRAL_WITHDRAW_MIN_RUB]
     IN fsm' = [fsm EXCEPT ![u].data = UpdateData(@, new)]
  /\ Goto(t, "w_set_state")
  /\ UnchangedDb

\* state.set_state(waiting_for_withdraw_amount)
WithdrawSetState(t) ==
  /\ tasks[t].pc = "w_set_state"
  /\ fsm' = [fsm EXCEPT ![tasks[t].user].state = waiting_for_withdraw_amount]
  /\ Finish(t)
  /\ UnchangedDb

(* ----------- referral_action_handler, action "withdraw_cancel" --------- *)
\* a cancel that resets the state and keeps the session data
CancelWithdraw_KeepsData(u) ==
  /\ fsm' = [fsm EXCEPT ![u].state = NoState]
  /\ UNCHANGED tasks
  /\ UnchangedDb

\* state.clear(); the referral screen is rendered again
CancelWithdraw(u) ==
  /\ fsm' = [fsm EXCEPT ![u] = ClearedFsm]
  /\ UNCHANGED tasks
  /\ UnchangedDb

(* ------------------- referral_withdraw_amount_handler ------------------ *)
\* the message passes the state filter; float(raw) or ValueError
SubmitAmount(t, u, raw) ==
  /\ FreeSlot(t)
  /\ TableHasRoom
  /\ fsm[u].state = waiting_for_withdraw_amount
  /\ IF ~raw.valid
       THEN UNCHANGED tasks
       ELSE tasks' = [tasks EXCEPT ![t] =
              [IdleTask EXCEPT !.pc = "a_get_data", !.user = u,
                               !.amount = raw.value]]
  /\ UNCHANGED fsm
  /\ UnchangedDb

\* state.get_data() and the range check against the snapshot
AmountGetData(t) ==
  /\ tasks[t].pc = "a_get_data"
  /\ LET data == fsm[tasks[t].user].data
         bal == DataGet(data, K_BALANCE, 0)
         min_amount == DataGet(data, K_MIN, DEFAULT_MIN)
     IN IF FloatLt(tasks[t].amount, min_amount) \/ FloatGt(tasks[t].amount, bal)
          THEN Finish(t)
          ELSE Goto(t, "a_update_data")
  /\ UNCHANGED fsm
  /\ UnchangedDb

\* state.update_data(referral_withdraw_amount=amount)
AmountUpdateData(t) ==
  /\ tasks[t].pc = "a_update_data"
  /\ LET new == [k \in {K_AMOUNT} |-> tasks[t].amount]
     IN fsm' = [fsm EXCEPT ![tasks[t].user].data = UpdateData(@, new)]
  /\ Goto(t, "a_set_state")
  /\ UnchangedDb

\* state.set_state(waiting_for_withdraw_contact)
AmountSetState(t) ==
  /\ tasks[t].pc = "a_set_state"
  /\ fsm' = [fsm EXCEPT ![tasks[t].user].state = waiting_for_withdraw_contact]
  /\ Finish(t)
  /\ UnchangedDb

(* ------------------- referral_withdraw_contact_handler ----------------- *)
\* requests that the running contact handlers may still insert
InsertsInFlight ==
  Cardinality({t \in Tasks :
    tasks[t].pc \in {"c_get_data", "c_pending", "c_debit", "c_insert"}})

\* the message passes the state filter; contact = text.strip(), length check
SubmitContact(t, u, raw) ==
  /\ FreeSlot(t)
  /\ fsm[u].state = waiting_for_withdraw_contact
  /\ nextId + InsertsInFlight <= MaxRequests
  /\ LET contact == Strip(raw)
     IN IF Len(contact) < MIN_CONTACT_LEN
          THEN UNCHANGED tasks
          ELSE tasks' = [tasks EXCEPT ![t] =
                 [IdleTask EXCEPT !.pc = "c_get_data", !.user = u,
                                  !.contact = contact]]
  /\ UNCHANGED fsm
  /\ UnchangedDb

\* state.get_data(): the amount and the balance snapshot of the session
ContactGetData(t) ==
  /\ tasks[t].pc = "c_get_data"
  /\ LET data == fsm[tasks[t].user].data
     IN tasks' = [tasks EXCEPT ![t].pc = "c_pending",
                               ![t].amount = DataGet(data, K_AMOUNT, 0),
                               ![t].balance = DataGet(data, K_BALANCE, 0)]
  /\ UNCHANGED fsm
  /\ UnchangedDb

\* the amount check of the contact handler
AmountInvalid(amount, bal) == FloatLe(amount, 0) \/ FloatGt(amount, bal)

\* get_pending_request_by_user, then the amount check
ContactCheck(t) ==
  /\ tasks[t].pc = "c_pending"
  /\ IF get_pending_request_by_user(requests, tasks[t].user)
       THEN Goto(t, "c_clear_pending")
       ELSE IF AmountInvalid(tasks[t].amount, tasks[t].balance)
              THEN Finish(t)
              ELSE Goto(t, "c_debit")
  /\ UNCHANGED fsm
  /\ UnchangedDb

\* state.clear() of the "pending exists" branch
ContactClearPending(t) ==
  /\ tasks[t].pc = "c_clear_pending"
  /\ fsm' = [fsm EXCEPT ![tasks[t].user] = ClearedFsm]
  /\ Finish(t)
  /\ UnchangedDb

\* outcomes of user_dal.adjust_referral_balance
AdjustOutcomes == {"ok", "none", "raise"}

\* an adjustment booked on the other user
adjust_referral_balance_OtherUser(tx, user_id, delta) ==
  [tx EXCEPT !.user = 3 - user_id, !.delta = @ + delta]

\* adjust_referral_balance(session, user_id, delta) inside the session
adjust_referral_balance(tx, user_id, delta) ==
  [tx EXCEPT !.user = user_id, !.delta = @ + delta]

\* the ledger holds decimals: a delta that is not a number is not applied
LedgerAccepts(delta) == delta # NaN

\* adjust_referral_balance(session, user_id, -amount)
ContactDebit(t, outcome) ==
  /\ tasks[t].pc = "c_debit"
  /\ outcome = "ok" => LedgerAccepts(tasks[t].amount)
  /\ CASE outcome = "ok" ->
            tasks' = [tasks EXCEPT
              ![t].pc = "c_insert",
              ![t].tx = adjust_referral_balance(@, tasks[t].user, -tasks[t].amount)]
       [] outcome = "none" -> Goto(t, "c_clear_fail")
       [] OTHER -> Finish(t)
  /\ UNCHANGED fsm
  /\ UnchangedDb

\* state.clear() after adjust_referral_balance returned None
ContactClearFail(t) ==
  /\ tasks[t].pc = "c_clear_fail"
  /\ fsm' = [fsm EXCEPT ![tasks[t].user] = ClearedFsm]
  /\ Finish(t)
  /\ UnchangedDb

\* create_withdraw_request; when the flush raises, the exception leaves the
\* handler and the session is rolled back
ContactInsert(t, ok) ==
  /\ tasks[t].pc = "c_insert"
  /\ IF ok
       THEN /\ tasks' = [tasks EXCEPT
                 ![t].pc = "c_clear_ok",
                 ![t].tx.insert = <<NewRequest(nextId, tasks[t].user,
                                       tasks[t].amount, tasks[t].contact,
                                       "pending")>>]
            /\ nextId' = nextId + 1
       ELSE /\ Finish(t)
            /\ UNCHANGED nextId
  /\ UNCHANGED <<fsm, balance, requests, initBalance, scope, rendered>>

\* a successful submission that leaves the session as it is
ContactClearOk_KeepsData(t) ==
  /\ tasks[t].pc = "c_clear_ok"
  /\ Goto(t, "commit")
  /\ UNCHANGED fsm
  /\ UnchangedDb

\* state.clear() after the request was created
ContactClearOk(t) ==
  /\ tasks[t].pc = "c_clear_ok"
  /\ fsm' = [fsm EXCEPT ![tasks[t].user] = ClearedFsm]
  /\ Goto(t, "commit")
  /\ UnchangedDb

(* ------------------- withdraw_request_action_handler ------------------- *)
ResolveActions == {"pay", "reject", "other"}

\* a load that does not look at the status
ResolveCheck_NoStatus(tbl, request_id) ==
  IF request_id \notin DOMAIN tbl THEN "not_found" ELSE "ok"

\* get_request_by_id, "if not req", "if req.status != 'pending'"
ResolveCheck(tbl, request_id) ==
  IF request_id \notin DOMAIN tbl
    THEN "not_found"
    ELSE IF tbl[request_id].status # "pending" THEN "not_pending" ELSE "ok"

\* get_request_by_id and the checks before the action
Resolve(t, action, request_id, admin, page) ==
  /\ FreeSlot(t)
  /\ IF ResolveCheck(requests, request_id) = "not_found"
       THEN UNCHANGED tasks
       ELSE IF ResolveCheck(requests, request_id) = "not_pending"
              THEN UNCHANGED tasks
              ELSE IF action \notin {"pay", "reject"}
                     THEN UNCHANGED tasks
                     ELSE tasks' = [tasks EXCEPT ![t] =
                            [IdleTask EXCEPT
                               !.pc = "r_update", !.action = action,
                               !.request_id = request_id, !.admin = admin,
                               !.page = page,
                               !.req = [user_id |-> requests[request_id].user_id,
                                        amount |-> requests[request_id].amount]]]
  /\ UNCHANGED fsm
  /\ UnchangedDb

\* a resolve that marks every request paid
ActionStatus_AllPaid(action) == "paid"

\* the status the action writes
ActionStatus(action) == IF action = "pay" THEN "paid" ELSE "rejected"

\* a resolve that credits the ledger whatever the action is
AfterUpdate_AlwaysCredit(action) == "r_credit"

\* the step after update_request_status
AfterUpdate(action) == IF action = "reject" THEN "r_credit" ELSE "r_view"

\* update_request_status(session, request_id, status=..., processed_by_admin_id=...)
ResolveUpdate(t) ==
  /\ tasks[t].pc = "r_update"
  /\ tasks' = [tasks EXCEPT
       ![t].pc = AfterUpdate(tasks[t].action),
       ![t].tx.update = <<[request_id |-> tasks[t].request_id,
                           status |-> ActionStatus(tasks[t].action),
                           admin_id |-> tasks[t].admin,
                           comment |-> NULL,
                           now |-> NOW]>>]
  /\ UNCHANGED fsm
  /\ UnchangedDb

\* a refund of one unit more than the request's amount
CreditAmount_Over(req) == req.amount + 1

\* the delta of the refund: req.amount
CreditAmount(req) == req.amount

\* adjust_referral_balance(session, req.user_id, req.amount) in try/except
ResolveCredit(t, outcome) ==
  /\ tasks[t].pc = "r_credit"
  /\ LET args == [user |-> tasks[t].req.user_id,
                  delta |-> CreditAmount(tasks[t].req)]
     IN CASE outcome = "ok" ->
               tasks' = [tasks EXCEPT
                 ![t].pc = "r_view",
                 ![t].credit = <<args>>,
                 ![t].tx = adjust_referral_balance(@, args.user, args.delta)]
          [] outcome = "none" ->
               tasks' = [tasks EXCEPT ![t].pc = "r_view", ![t].credit = <<args>>]
          [] OTHER ->
               tasks' = [tasks EXCEPT ![t].pc = "r_view", ![t].credit = <<args>>]
  /\ UNCHANGED fsm
  /\ UnchangedDb

\* view_withdraw_requests_handler(callback, ..., page): reads only
ResolveView(t) ==
  /\ tasks[t].pc = "r_view"
  /\ Goto(t, "commit")
  /\ UNCHANGED fsm
  /\ UnchangedDb

(* ------------------------- session commit ------------------------------ *)
\* the handler returned: the writes of its session are committed together
Commit(t) ==
  /\ tasks[t].pc = "commit"
  /\ LET tx == tasks[t].tx
     IN /\ requests' = TableView(requests, tx)
        /\ balance' = IF tx.user \in Users
                        THEN [balance EXCEPT ![tx.user] = @ + tx.delta]
                        ELSE balance
  /\ Finish(t)
  /\ UNCHANGED <<fsm, nextId, initBalance, scope, rendered>>

Next ==
  \/ \E t \in scope.tasks, u \in scope.users : StartWithdraw(t, u)
  \/ \E t \in scope.tasks : WithdrawCheckPending(t)
  \/ \E t \in scope.tasks : WithdrawCheckBalance(t)
  \/ \E t \in scope.tasks : WithdrawUpdateData(t)
  \/ \E t \in scope.tasks : WithdrawSetState(t)
  \/ \E u \in scope.users : CancelWithdraw(u)
  \/ \E t \in scope.tasks, u \in scope.users, raw \in AmountInputs : SubmitAmount(t, u, raw)
  \/ \E t \in scope.tasks : AmountGetData(t)
  \/ \E t \in scope.tasks : AmountUpdateData(t)
  \/ \E t \in scope.tasks : AmountSetState(t)
  \/ \E t \in scope.tasks, u \in scope.users, raw \in RawContacts : SubmitContact(t, u, raw)
  \/ \E t \in scope.tasks : ContactGetData(t)
  \/ \E t \in scope.tasks : ContactCheck(t)
  \/ \E t \in scope.tasks : ContactClearPending(t)
  \/ \E t \in scope.tasks, outcome \in AdjustOutcomes : ContactDebit(t, outcome)
  \/ \E t \in scope.tasks : ContactClearFail(t)
  \/ \E t \in scope.tasks, ok \in BOOLEAN : ContactInsert(t, ok)
  \/ \E t \in scope.tasks : ContactClearOk(t)
  \/ \E t \in scope.tasks, action \in ResolveActions, request_id \in 1 .. MaxRequests + 1,
        admin \in Admins, page \in {0} :
       Resolve(t, action, request_id, admin, page)
  \/ \E t \in scope.tasks : ResolveUpdate(t)
  \/ \E t \in scope.tasks, outcome \in AdjustOutcomes : ResolveCredit(t, outcome)
  \/ \E t \in scope.tasks : ResolveView(t)
  \/ \E t \in scope.tasks : Commit(t)

Spec == Init /\ [][Next]_vars

(* ----------------------- the admin review queue ------------------------ *)
\* The queue on its own: one admin callback at a time, each handled from
\* its first to its last line in one step, over a table of up to MaxRows
\* requests of as many users.
MaxRows == 12
MaxPage == 2
MaxProcessed == 1

page_size == 5

\* a page count rounded down
TotalPages_Floor(total_count) == total_count \div page_size

\* total_pages of view_withdraw_requests_handler
TotalPages(total_count) ==
  IF total_count > 0 THEN (total_count + page_size - 1) \div page_size ELSE 1

\* ORDER BY created_at DESC: request ids grow with created_at
RECURSIVE NewestFirst(_)
NewestFirst(ids) ==
  IF ids = {} THEN <<>>
  ELSE LET m == CHOOSE x \in ids : \A y \in ids : y <= x
       IN <<m>> \o NewestFirst(ids \ {m})

\* list_requests(status=..., limit=..., offset=...)
list_requests(tbl, status, limit, offset) ==
  LET all == NewestFirst({i \in DOMAIN tbl : tbl[i].status = status})
      last == IF offset + limit < Len(all) THEN offset + limit ELSE Len(all)
  IN SubSeq(all, offset + 1, last)

\* view_withdraw_requests_handler(callback, ..., page)
Render(tbl, page) ==
  LET total_count == count_requests(tbl, "pending")
      total_pages == TotalPages(total_count)
      reqs == list_requests(tbl, "pending", page_size, page * page_size)
  IN [screen |-> IF reqs = <<>> /\ page = 0
                   THEN "admin_no_withdraw_requests"
                   ELSE "admin_withdraw_requests_title",
      page |-> page, total_count |-> total_count,
      total_pages |-> total_pages, requests |-> reqs]

\* the rows that left pending
Processed == {i \in DOMAIN requests : requests[i].status # "pending"}

UnchangedDialogs == UNCHANGED <<nextId, fsm, tasks, initBalance, scope>>

\* n pending requests of n users, each of one unit
InitAdmin ==
  /\ \E n \in 0 .. MaxRows :
       /\ requests = [i \in 1 .. n |->
            NewRequest(i, i, 1, <<"a", "b", "c", "d", "e">>, "pending")]
       /\ balance = [u \in 1 .. n |-> 0]
       /\ initBalance = [u \in 1 .. n |-> 1]
       /\ nextId = n + 1
  /\ fsm = [u \in Users |-> ClearedFsm]
  /\ tasks = [t \in Tasks |-> IdleTask]
  /\ scope = [users |-> {}, tasks |-> {}]
  /\ rendered = NoRender

\* withdraw_requests_page_handler
ViewRequests(page) ==
  /\ rendered' = [answer |-> "",
                  callback |-> [kind |-> "withdraw_requests_page",
                                action |-> "none", request_id |-> 0,
                                page |-> page],
                  view |-> Render(requests, page)]
  /\ UNCHANGED <<balance, requests>>
  /\ UnchangedDialogs

\* withdraw_request_action_handler, run from the callback to the commit
ResolveAlone(action, request_id, admin, outcome) ==
  LET check == ResolveCheck(requests, request_id)
      page == rendered.view.page
      cb == [kind |-> "withdraw_request", action |-> action,
             request_id |-> request_id, page |-> page]
      updated == update_request_status(requests, request_id,
                   ActionStatus(action), admin, NULL, NOW)
  IN /\ (check = "ok" /\ action \in {"pay", "reject"})
          => Cardinality(Processed) < MaxProcessed
     /\ action = "reject" \/ outcome = "ok"
     /\ UnchangedDialogs
     /\ CASE check = "not_found" ->
               /\ rendered' = [rendered EXCEPT
                    !.answer = "admin_withdraw_request_not_found",
                    !.callback = cb]
               /\ UNCHANGED <<balance, requests>>
          [] check = "not_pending" ->
               /\ rendered' = [rendered EXCEPT
                    !.answer = "admin_withdraw_request_not_pending",
                    !.callback = cb]
               /\ UNCHANGED <<balance, requests>>
          [] check = "ok" /\ action = "pay" ->
               /\ requests' = updated
               /\ UNCHANGED balance
               /\ rendered' = [answer |-> "admin_withdraw_request_marked_paid",
                               callback |-> cb, view |-> Render(updated, page)]
          [] check = "ok" /\ action = "reject" ->
               /\ requests' = updated
               /\ balance' = IF outcome = "ok"
                               THEN [balance EXCEPT
                                       ![requests[request_id].user_id] =
                                         @ + CreditAmount(requests[request_id])]
                               ELSE balance
               /\ rendered' = [answer |-> "admin_withdraw_request_rejected",
                               callback |-> cb, view |-> Render(updated, page)]
          [] OTHER ->
               /\ rendered' = [rendered EXCEPT
                    !.answer = "Unknown action.", !.callback = cb]
               /\ UNCHANGED <<balance, requests>>

\* the ids an admin can send: a button of the page on screen, a button of
\* an older message whose request was processed since, an id of no row
Clickable ==
  {rendered.view.requests[i] : i \in DOMAIN rendered.view.requests}
    \cup Processed \cup {nextId}

NextAdmin ==
  \/ \E page \in 0 .. MaxPage : ViewRequests(page)
  \/ \E action \in ResolveActions, request_id \in Clickable,
        admin \in Admins, outcome \in AdjustOutcomes :
       ResolveAlone(action, request_id, admin, outcome)

SpecAdmin == InitAdmin /\ [][NextAdmin]_vars

(* ------------------------------ claims --------------------------------- *)
\* the step is taken by task t
StepOf(t) == tasks'[t] # tasks[t]

\* the handler invocation of task t ends with this step
Ends(t) == tasks[t].pc # "idle" /\ tasks'[t].pc = "idle"

PendingOf(u) ==
  {i \in DOMAIN requests :
     requests[i].user_id = u /\ requests[i].status = "pending"}

\* C1: in every reachable state each user has at most one request with
\* status pending, whatever the interleaving of contact handlers.
C1_SinglePending == \A u \in Users : Cardinality(PendingOf(u)) <= 1

\* C2: no user's referral balance is ever below zero.
C2_BalanceNonNegative == \A u \in Users : balance[u] >= 0

\* C3: of the resolve calls on one request exactly one makes the transition;
\* a resolve call that writes after the request left pending changes
\* neither the requests nor the ledger.
C3_ResolveExactlyOnce ==
  [][\A t \in Tasks :
       (/\ StepOf(t)
        /\ tasks[t].action \in {"pay", "reject"}
        /\ tasks[t].request_id \in DOMAIN requests
        /\ requests[tasks[t].request_id].status # "pending")
       => (requests' = requests /\ balance' = balance)]_vars

\* C4: debit and insert of the contact handler are one unit: a step of a
\* contact handler either adds the pending request and debits its amount, or
\* changes neither; and when the insert fails the dialog is back in Idle.
C4_DebitInsertAtomic ==
  [][\A t \in Tasks :
       (StepOf(t) /\ tasks[t].contact # <<>>)
       => LET u == tasks[t].user
          IN /\ \/ (requests' = requests /\ balance' = balance)
                \/ \E i \in DOMAIN requests' \ DOMAIN requests :
                     /\ requests'[i].user_id = u
                     /\ requests'[i].status = "pending"
                     /\ balance' = [balance EXCEPT ![u] = @ - requests'[i].amount]
             /\ (tasks[t].pc = "c_insert" /\ Ends(t)) => fsm'[u] = ClearedFsm]_vars

\* C5: the store's transition applied to a request that is paid or rejected
\* leaves the request as it is.
C5_TerminalIsFinal ==
  \A i \in DOMAIN requests :
    requests[i].status # "pending"
    => \A status \in {"paid", "rejected"}, admin \in Admins :
         update_request_status(requests, i, status, admin, NULL, NOW)
           = requests

\* C6: a rejection credits the owner with the amount exactly once: the
\* resolve call that makes the transition and whose credit went through adds
\* the amount, and a reject call on a request that already left pending adds
\* nothing.
C6_RejectCreditsOnce ==
  [][\A t \in Tasks :
       (StepOf(t) /\ tasks[t].pc = "commit" /\ tasks[t].action = "reject")
       => LET id == tasks[t].request_id
              owner == tasks[t].req.user_id
          IN IF requests[id].status = "pending"
               THEN tasks[t].tx.delta # 0
                    => balance'[owner] = balance[owner] + requests[id].amount
               ELSE balance' = balance]_vars

\* C7: every step of a resolve call with action pay leaves all balances and
\* dialogs unchanged and changes only status and processed fields of its
\* request.
C7_PayLeavesLedger ==
  [][\A t \in Tasks :
       (StepOf(t) /\ (tasks[t].action = "pay" \/ tasks'[t].action = "pay"))
       => /\ balance' = balance
          /\ fsm' = fsm
          /\ DOMAIN requests' = DOMAIN requests
          /\ \A i \in DOMAIN requests :
               IF i = tasks[t].request_id
                 THEN /\ requests'[i].request_id = requests[i].request_id
                      /\ requests'[i].user_id = requests[i].user_id
                      /\ requests'[i].amount = requests[i].amount
                      /\ requests'[i].contact = requests[i].contact
                      /\ requests'[i].status \in {requests[i].status, "paid"}
                 ELSE requests'[i] = requests[i]]_vars

\* a request has been marked paid by an admin while its owner holds a balance
C7_Witness ==
  \E i \in DOMAIN requests :
    /\ requests[i].status = "paid"
    /\ requests[i].processed_by_admin_id # 0
    /\ balance[requests[i].user_id] > 0

\* C8: the contact handler goes on to debit a (numeric) amount only if
\* 0 < amount <= the balance the ledger holds at that moment.
C8_CheckAgainstLedger ==
  [][\A t \in Tasks :
       (tasks[t].pc = "c_pending" /\ tasks'[t].pc = "c_debit"
          /\ tasks[t].amount # NaN)
       => (0 < tasks[t].amount /\ tasks[t].amount <= balance[tasks[t].user])]_vars

\* C9: a contact handler that ends because a pending request exists or
\* because the amount is not within 0 < amount <= balance leaves the dialog
\* in Idle with the session cleared, and has created and debited nothing.
C9_RevalidationAborts ==
  [][\A t \in Tasks :
       (Ends(t) /\ tasks[t].pc \in {"c_pending", "c_clear_pending"})
       => /\ fsm'[tasks[t].user] = ClearedFsm
          /\ requests' = requests
          /\ balance' = balance]_vars

\* C10: creating a pending request for a user who has a pending request is
\* refused and leaves the set of requests unchanged.
C10_DuplicatePendingRefused ==
  \A u \in Users :
    PendingOf(u) # {}
    => \A amount \in 1 .. MaxBalance :
         create_withdraw_request(requests,
           NewRequest(nextId, u, amount, <<"a", "b", "c", "d", "e">>, "pending"))
           = requests
\* the commit of a reject call
RejectCommit(t) ==
  StepOf(t) /\ tasks[t].pc = "commit" /\ tasks[t].action = "reject"

\* C11 as claimed: whenever a request becomes rejected, its amount is credited
\* to the owner in the same step, also when the credit call failed.
C11_RejectedImpliesCredited ==
  [][\A i \in DOMAIN requests :
       (requests[i].status # "rejected" /\ requests'[i].status = "rejected")
       => balance'[requests[i].user_id]
            = balance[requests[i].user_id] + requests[i].amount]_vars

\* C11 as amended: a request becomes rejected only in the commit of a reject
\* call, and that commit credits the owner with exactly the request's amount
\* in the same step unless the credit call of that resolve failed, in which
\* case the request is rejected and no balance changes.
C11_TransitionAndCreditCommitTogether ==
  [][/\ \A i \in DOMAIN requests :
          (requests[i].status # "rejected" /\ requests'[i].status = "rejected")
          => \E t \in Tasks : RejectCommit(t) /\ tasks[t].request_id = i
     /\ \A t \in Tasks :
          RejectCommit(t)
          => LET id == tasks[t].request_id
                 owner == requests[id].user_id
             IN /\ requests'[id].status = "rejected"
                /\ IF tasks[t].tx.delta # 0
                     THEN balance' = [balance EXCEPT
                                        ![owner] = @ + requests[id].amount]
                     ELSE balance' = balance]_vars

\* a request is rejected and its owner has the whole initial balance again
C11_Witness ==
  \E i \in DOMAIN requests :
    /\ requests[i].status = "rejected"
    /\ initBalance[requests[i].user_id] > 0
    /\ balance[requests[i].user_id] = initBalance[requests[i].user_id]
    /\ \A t \in Tasks : tasks[t].pc = "idle"
\* C12: a withdraw callback goes on past its pending check only when the
\* user has no pending request and past its balance check only when the
\* balance is at least the minimum; otherwise it ends there with the dialog
\* as it was.  Only a callback that passed both sets the dialog to
\* AwaitingAmount, and no step of it changes requests or balances.
C12_StartWithdrawGuards ==
  [][\A t \in Tasks :
       LET u == tasks[t].user
           pcs == {"w_pending", "w_balance", "w_update_data", "w_set_state"}
       IN /\ (StepOf(t) /\ (tasks[t].pc \in pcs \/ tasks'[t].pc \in pcs))
             => (requests' = requests /\ balance' = balance)
          /\ (StepOf(t) /\ tasks[t].pc = "w_pending")
             => IF get_pending_request_by_user(requests, u)
                  THEN Ends(t) /\ fsm' = fsm
                  ELSE tasks'[t].pc = "w_balance"
          /\ (StepOf(t) /\ tasks[t].pc = "w_balance")
             => IF balance[u] >= REFERRAL_WITHDRAW_MIN_RUB
                  THEN tasks'[t].pc = "w_update_data"
                  ELSE Ends(t) /\ fsm' = fsm
          /\ \A v \in Users :
               (fsm[v].state # waiting_for_withdraw_amount
                  /\ fsm'[v].state = waiting_for_withdraw_amount)
               => \E s \in Tasks :
                    /\ StepOf(s) /\ tasks[s].pc = "w_set_state" /\ tasks[s].user = v
                    /\ tasks[s].balance >= REFERRAL_WITHDRAW_MIN_RUB]_vars

\* a withdraw callback has brought a user without pending request into
\* AwaitingAmount with a snapshot of at least the minimum
C12_Witness ==
  \E u \in Users :
    /\ fsm[u].state = waiting_for_withdraw_amount
    /\ K_BALANCE \in DOMAIN fsm[u].data
    /\ fsm[u].data[K_BALANCE] >= REFERRAL_WITHDRAW_MIN_RUB
    /\ PendingOf(u) = {}
\* min <= amount <= balance, for an amount that is a number
InRange(amount, lo, hi) == amount # NaN /\ lo <= amount /\ amount <= hi

\* C13: the amount handler advances exactly when the parsed amount satisfies
\* min <= amount <= snapshot balance (both inclusive), and then stores that
\* amount and sets AwaitingContact; for any other amount it ends with the
\* session unchanged.
C13_AmountRange ==
  [][\A t \in Tasks :
       LET data == fsm[tasks[t].user].data
           bal == DataGet(data, K_BALANCE, 0)
           min_amount == DataGet(data, K_MIN, DEFAULT_MIN)
       IN /\ (StepOf(t) /\ tasks[t].pc = "a_get_data")
             => /\ fsm' = fsm
                /\ IF InRange(tasks[t].amount, min_amount, bal)
                     THEN tasks'[t].pc = "a_update_data"
                     ELSE Ends(t)
          /\ (StepOf(t) /\ tasks[t].pc = "a_update_data")
             => fsm'[tasks[t].user].data[K_AMOUNT] = tasks[t].amount
          /\ (StepOf(t) /\ tasks[t].pc = "a_set_state")
             => fsm'[tasks[t].user].state = waiting_for_withdraw_contact]_vars
\* C14: the contact handler gets past its length check only with a contact
\* whose trimmed text has at least 5 characters, and the check changes no
\* dialog, request or balance: a shorter contact leaves the dialog in
\* AwaitingContact with its amount, and nothing is created or debited.
C14_ContactLength ==
  [][\A t \in Tasks :
       (tasks[t].pc = "idle" /\ tasks'[t].pc = "c_get_data")
       => LET contact == tasks'[t].contact
          IN /\ Len(contact) >= 5
             /\ Head(contact) # " " /\ contact[Len(contact)] # " "
             /\ \E raw \in RawContacts :
                  /\ Len(raw) >= Len(contact)
                  /\ \E k \in 0 .. Len(raw) - Len(contact) :
                       /\ contact = SubSeq(raw, k + 1, k + Len(contact))
                       /\ \A j \in (1 .. k) \cup (k + Len(contact) + 1 .. Len(raw)) :
                            raw[j] = " "
             /\ fsm' = fsm /\ requests' = requests /\ balance' = balance
             /\ fsm[tasks'[t].user].state = waiting_for_withdraw_contact]_vars

\* a contact of exactly 5 characters has passed the length check
C14_Witness ==
  \E t \in Tasks :
    /\ tasks[t].pc = "c_get_data"
    /\ Len(tasks[t].contact) = 5
    /\ fsm[tasks[t].user].state = waiting_for_withdraw_contact
\* C15: the cancel action (the only step that writes the dialog outside a
\* handler task) puts the user's dialog into Idle with empty session data,
\* whatever state it was in, and changes no other dialog, no request and no
\* balance.
C15_CancelClears ==
  [][(tasks' = tasks /\ fsm' # fsm)
       => /\ \E u \in Users : fsm' = [fsm EXCEPT ![u] = ClearedFsm]
          /\ requests' = requests
          /\ balance' = balance]_vars

\* the dialog of a user was cancelled out of AwaitingContact while the
\* contact handler, the only task of this scope, is still in flight
C15_Witness ==
  /\ scope.tasks = {1}
  /\ tasks[1].pc = "c_get_data"
  /\ fsm[tasks[1].user] = ClearedFsm
\* the number of pending requests in the table
PendingCount == Cardinality({i \in DOMAIN requests : requests[i].status = "pending"})

\* the least number of pages of five that hold n items
CeilFifth(n) == CHOOSE p \in 0 .. n : p * 5 >= n /\ (p = 0 \/ (p - 1) * 5 < n)

\* C16: a rendered page of the queue over N pending requests holds
\* min(5, max(0, N - 5*page)) items, reports total count N and
\* max(1, ceil(N/5)) pages.
C16_ListPage ==
  rendered.view.screen # "none" =>
    LET v == rendered.view
        N == PendingCount
        rest == IF N - 5 * v.page > 0 THEN N - 5 * v.page ELSE 0
    IN /\ Len(v.requests) = (IF rest < 5 THEN rest ELSE 5)
       /\ v.total_count = N
       /\ v.total_pages = (IF CeilFifth(N) > 1 THEN CeilFifth(N) ELSE 1)

\* the last page of twelve pending requests, holding two
C16_Witness ==
  /\ rendered.view.screen # "none"
  /\ PendingCount = 12
  /\ rendered.view.page = 2
  /\ Len(rendered.view.requests) = 2
  /\ rendered.view.total_pages = 3

\* C17: a resolve call running alone whose load finds no request, or a
\* request that is not pending, answers not-found or not-pending and
\* changes no request and no balance.
C17_FailedLoadChangesNothing ==
  [][LET cb == rendered'.callback
         id == cb.request_id
     IN cb.kind = "withdraw_request" =>
          /\ id \notin DOMAIN requests =>
               /\ rendered'.answer = "admin_withdraw_request_not_found"
               /\ requests' = requests /\ balance' = balance
          /\ (id \in DOMAIN requests /\ requests[id].status # "pending") =>
               /\ rendered'.answer = "admin_withdraw_request_not_pending"
               /\ requests' = requests /\ balance' = balance]_vars

\* a second click on a request that was rejected by the first
C17_Witness ==
  /\ rendered.answer = "admin_withdraw_request_not_pending"
  /\ rendered.callback.request_id \in DOMAIN requests
  /\ requests[rendered.callback.request_id].status = "rejected"
\* C18: when the credit of a reject fails, the request is rejected all the
\* same, the admin is told it was rejected, and the queue is rendered again.
C18_CreditFailureKeepsRejection ==
  [][LET cb == rendered'.callback
         id == cb.request_id
     IN (/\ cb.kind = "withdraw_request"
         /\ cb.action = "reject"
         /\ ResolveCheck(requests, id) = "ok"
         /\ balance' = balance)
        => /\ requests'[id].status = "rejected"
           /\ rendered'.answer = "admin_withdraw_request_rejected"
           /\ rendered'.view = Render(requests', cb.page)
           /\ id \notin {rendered'.view.requests[k] :
                            k \in DOMAIN rendered'.view.requests}]_vars

\* a request rejected whose owner was not credited
C18_Witness ==
  /\ rendered.answer = "admin_withdraw_request_rejected"
  /\ rendered.callback.request_id \in DOMAIN requests
  /\ requests[rendered.callback.request_id].status = "rejected"
  /\ balance[requests[rendered.callback.request_id].user_id] = 0
  /\ rendered.view.screen = "admin_withdraw_requests_title"

\* C19: a call that writes status rejected goes on to call the ledger with
\* the owner and the amount of the request, and a request becomes rejected
\* only in the commit of a call that made this credit attempt.
C19_RejectionHasCreditAttempt ==
  [][/\ \A t \in Tasks :
          /\ (tasks[t].pc = "r_update" /\ tasks[t].action = "reject" /\ StepOf(t))
               => tasks'[t].pc = "r_credit"
          /\ (tasks[t].pc = "r_credit" /\ StepOf(t))
               => tasks'[t].credit = <<[user |-> tasks[t].req.user_id,
                                        delta |-> tasks[t].req.amount]>>
     /\ \A i \in DOMAIN requests :
          (requests[i].status # "rejected" /\ requests'[i].status = "rejected")
          => \E t \in Tasks :
               /\ RejectCommit(t)
               /\ tasks[t].request_id = i
               /\ tasks[t].credit = <<[user |-> requests[i].user_id,
                                       delta |-> requests[i].amount]>>]_vars

\* a request that is rejected although the credit call failed
C19_Witness ==
  \E i \in DOMAIN requests :
    /\ requests[i].status = "rejected"
    /\ balance[requests[i].user_id] + requests[i].amount <= initBalance[requests[i].user_id]
\* C20: the processing fields of a request are null while it is pending,
\* and a commit writes them only onto a request where they are still null,
\* so that they are written once and never overwritten.
C20_ProcessedFieldsWrittenOnce ==
  [][/\ \A i \in DOMAIN requests :
          requests[i].status = "pending"
          => /\ requests[i].processed_at = NULL
             /\ requests[i].processed_by_admin_id = 0
             /\ requests[i].admin_comment = NULL
     /\ \A t \in Tasks :
          (tasks[t].pc = "commit" /\ StepOf(t) /\ tasks[t].tx.update # NoRow)
          => requests[tasks[t].tx.update[1].request_id].processed_at = NULL]_vars
\* C21: the request store is append-only: no step removes a request, and
\* the id, owner, amount and contact of an existing request never change.
C21_AppendOnly ==
  [][\A i \in DOMAIN requests :
       /\ i \in DOMAIN requests'
       /\ requests'[i].request_id = requests[i].request_id
       /\ requests'[i].user_id = requests[i].user_id
       /\ requests'[i].amount = requests[i].amount
       /\ requests'[i].contact = requests[i].contact]_vars

\* a processed request next to a later one
C21_Witness ==
  /\ Cardinality(DOMAIN requests) = 2
  /\ \E i \in DOMAIN requests : requests[i].status # "pending"
\* C22 as claimed: in every state a user whose workflow state is Idle holds
\* no balance snapshot, minimum or amount in the session.
C22_IdleHoldsNoData ==
  \A u \in Users : fsm[u].state = NoState => fsm[u].data = EmptyData

\* an Idle user holds session data only while one of the user's handlers is
\* between its update_data and its set_state
IdleDataOnlyMidHandler ==
  \A u \in Users :
    (fsm[u].state = NoState /\ fsm[u].data # EmptyData)
    => \E t \in Tasks : /\ tasks[t].user = u
                         /\ tasks[t].pc \in {"w_set_state", "a_set_state"}

\* C22 as amended: the state.clear() of a successful submitContact leaves
\* the user Idle with an empty session, and an Idle user holds session data
\* only between the update_data and the set_state of a running handler.
C22_ClearedAfterSubmit ==
  [][/\ IdleDataOnlyMidHandler
     /\ IdleDataOnlyMidHandler'
     /\ \A t \in Tasks :
          (tasks[t].pc = "c_clear_ok" /\ StepOf(t))
          => fsm'[tasks[t].user] = ClearedFsm]_vars

\* a submission that created its request and cleared the session
C22_Witness ==
  \E t \in Tasks :
    /\ tasks[t].pc = "commit"
    /\ tasks[t].tx.insert # NoRow
    /\ fsm[tasks[t].user] = ClearedFsm
\* the sum of the amounts of the requests ids
RECURSIVE SumAmounts(_)
SumAmounts(ids) ==
  IF ids = {} THEN 0
  ELSE LET i == CHOOSE x \in ids : TRUE
       IN requests[i].amount + SumAmounts(ids \ {i})

\* the funds of user u held by pending and paid requests
Held(u) ==
  SumAmounts({i \in DOMAIN requests :
                requests[i].user_id = u /\ requests[i].status \in {"pending", "paid"}})

\* C23: conservation of funds. The balance of a user plus the amounts of
\* the user's pending and paid requests equals the initial balance (there
\* are no external credits here); stated as the half the workflow could
\* only break by creating funds: the sum never exceeds the initial balance.
C23_NoFundsCreated ==
  \A u \in Users : balance[u] + Held(u) <= initBalance[u]
\* C24: a resolve re-renders the queue at the page it was sent from, and
\* the page shown is a page of the queue: a resolve sent from a valid page
\* leaves 0 <= page < total_pages, also when it took the only request of
\* the last page.
C24_PageValidAfterResolve ==
  [][(/\ rendered'.callback.kind = "withdraw_request"
      /\ rendered'.answer \in {"admin_withdraw_request_marked_paid",
                                "admin_withdraw_request_rejected"}
      /\ rendered.view.page < rendered.view.total_pages)
     => /\ rendered'.view.page = rendered.view.page
        /\ 0 <= rendered'.view.page
        /\ rendered'.view.page < rendered'.view.total_pages]_vars
\* C25: every request holds an amount of at least the minimum that is a
\* number, and a user is in AwaitingContact only with a session that holds
\* a balance snapshot and an amount with minimum <= amount <= snapshot.
C25_AmountsValidated ==
  /\ \A i \in DOMAIN requests :
       InRange(requests[i].amount, REFERRAL_WITHDRAW_MIN_RUB,
               initBalance[requests[i].user_id])
  /\ \A u \in Users :
       fsm[u].state = waiting_for_withdraw_contact
       => /\ K_AMOUNT \in DOMAIN fsm[u].data
          /\ K_BALANCE \in DOMAIN fsm[u].data
          /\ InRange(fsm[u].data[K_AMOUNT], REFERRAL_WITHDRAW_MIN_RUB,
                     fsm[u].data[K_BALANCE])
\* the user whose update task t handles in this step
StepUser(t) == IF tasks[t].pc = "idle" THEN tasks'[t].user ELSE tasks[t].user

\* balance, session and requests of user v are what they were
Untouched(v) ==
  /\ balance'[v] = balance[v]
  /\ fsm'[v] = fsm[v]
  /\ \A i \in DOMAIN requests' :
       requests'[i].user_id = v => (i \in DOMAIN requests /\ requests'[i] = requests[i])

\* C26: every step of a dialog handler of user u, its commit included, and
\* every cancel of u leave balance, session and requests of all other users
\* unchanged, and the commit of a reject changes no balance but the owner's.
C26_OtherUsersUntouched ==
  [][/\ \A t \in Tasks :
          (StepOf(t) /\ StepUser(t) \in Users)
          => \A v \in Users \ {StepUser(t)} : Untouched(v)
     /\ tasks' = tasks
          => /\ Cardinality({v \in Users : fsm'[v] # fsm[v]}) <= 1
             /\ balance' = balance /\ requests' = requests
     /\ \A t \in Tasks :
          RejectCommit(t)
          => \A v \in Users \ {requests[tasks[t].request_id].user_id} :
               balance'[v] = balance[v]]_vars

\* user 1 has withdrawn and was refunded while user 2 is in a dialog
C26_Witness ==
  /\ \E i \in DOMAIN requests :
       requests[i].user_id = 1 /\ requests[i].status = "rejected"
  /\ balance[1] = initBalance[1]
  /\ fsm[2].state # NoState
====
